---- MODULE Spec2Model ----
(***************************************************************************)
(* A model of audio_visualizer.py: main(), the construction of             *)
(* AudioVisualizer (decode, downmix, fixed-point conversion, playback      *)
(* submit, scene setup, bar creation, task scheduling) and the per-frame   *)
(* task update_visualization driven by the engine's render loop.           *)
(*                                                                         *)
(* Units.  A sample is an integer k standing for k / SampleDen.  A scale   *)
(* component is an integer s standing for s / ScaleDen, ScaleDen being     *)
(* 10 * SampleDen, so that 0.1 and |sample| * 10 are both whole numbers.   *)
(* Elapsed time is an integer t standing for t / TimeDen seconds.  A       *)
(* position is in quarters, a colour component in 1 / (10 * NumBars).      *)
(***************************************************************************)
EXTENDS Integers, Sequences, FiniteSets, TLC

VARIABLES
    pc,            \* "start" | "exited" | "crashed" | "running"
    fileExists,    \* os.path.exists(audio_file)
    printed,       \* what has been printed, in order
    window,        \* the engine window has been opened (ShowBase.__init__)
    steps,         \* the construction steps __init__ has completed, in order
    decode,        \* "none" | "ok" | "failed": how sf.read ended
    audio_data,    \* self.audio_data (mono), a sequence of samples
    sample_rate,   \* self.sample_rate
    playback_data, \* self.playback_data, a sequence of int16
    playback,      \* "none" | "playing" | "failed": sa.play_buffer
    scene,         \* camera and lights are set up
    bars,          \* self.bars, a sequence of bar records
    task,          \* "none" | "scheduled" | "done": the update task
    time,          \* task.time of the latest frame
    last,          \* the latest invocation of update_visualization
    reads          \* every index of audio_data an update has read

vars == <<pc, fileExists, printed, window, steps, decode, audio_data,
          sample_rate, playback_data, playback, scene, bars, task, time,
          last, reads>>

----------------------------------------------------------------------------
(* Program constants *)

NumBars == 64
FallbackLen == 1024
FallbackRate == 44100
Int16Max == 32767
Int16Min == -Int16Max - 1
Int16 == Int16Min..Int16Max

(* Bounds of the model *)

SampleDen == 200       \* samples are multiples of 1 / SampleDen
TimeDen == 60          \* the clock ticks in 1 / TimeDen seconds
MaxExtra == 4          \* decoded buffers hold up to NumBars + MaxExtra samples
SlowRate == 20         \* the slowest decoded sample rate
MaxDt == 2             \* a frame lasts 0..MaxDt ticks

ScaleDen == 10 * SampleDen
MaxTime == (MaxExtra * TimeDen) \div SlowRate + 1

----------------------------------------------------------------------------
(* Arithmetic *)

Abs(x) == IF x < 0 THEN -x ELSE x
Max(a, b) == IF b > a THEN b ELSE a
Min(a, b) == IF b < a THEN b ELSE a

\* int(x) and astype of a quotient n / d, d > 0: truncation toward zero
Trunc(n, d) == IF n >= 0 THEN n \div d ELSE -((-n) \div d)

\* round(n / d), d > 0, halves to even
RoundHalfEven(n, d) ==
    LET q == n \div d
        r == n % d
    IN  IF 2 * r < d THEN q
        ELSE IF 2 * r > d THEN q + 1
        ELSE IF q % 2 = 0 THEN q ELSE q + 1

Clip16(x) == Max(Int16Min, Min(Int16Max, x))
Wrap16(x) == ((x - Int16Min) % 65536) + Int16Min

----------------------------------------------------------------------------
(* The inputs: what the decoder can return *)

Amplitudes == {0, 3, SampleDen, SampleDen + SampleDen \div 2}
Lengths == {0, NumBars - 1} \cup (NumBars..(NumBars + MaxExtra))
Rates == {SlowRate, TimeDen, FallbackRate}

\* sample i (from 0) of a test signal sweeping -amp..amp
Wave(amp, i) == ((i * 37) % (2 * amp + 1)) - amp

\* the two channels of a stereo frame differ by 2 * (i % 3)
StereoRow(amp, i) == <<Wave(amp, i) + (i % 3), Wave(amp, i) - (i % 3)>>

DecodeOutcomes ==
    [ok : {FALSE}] \cup
    [ok : {TRUE}, channels : {1, 2}, len : Lengths, amp : Amplitudes,
     rate : Rates]

\* how the build converts a float outside the int16 range (undefined in C)
CastModes == {"wrap", "saturate"}

----------------------------------------------------------------------------
(* AudioVisualizer.__init__ and the methods it calls *)

\* sf.read: the decoded array, 1-D for one channel, 2-D otherwise
sf_read(dec) ==
    [data |-> IF dec.channels = 1
                THEN [i \in 1..dec.len |-> Wave(dec.amp, i - 1)]
                ELSE [i \in 1..dec.len |-> StereoRow(dec.amp, i - 1)],
     ndim |-> IF dec.channels = 1 THEN 1 ELSE 2,
     rate |-> dec.rate]

\* a fallback that is an empty buffer
FallbackAudioEmpty == <<>>

\* np.zeros(1024)
FallbackAudio == [i \in 1..FallbackLen |-> 0]

\* the try/except around sf.read
load_audio(dec) ==
    IF dec.ok
      THEN [data |-> sf_read(dec).data, ndim |-> sf_read(dec).ndim,
            rate |-> sf_read(dec).rate, decode |-> "ok", out |-> <<>>]
      ELSE [data |-> FallbackAudio, ndim |-> 1, rate |-> FallbackRate,
            decode |-> "failed", out |-> <<"Error loading audio file">>]

RECURSIVE SeqSum(_)
SeqSum(s) == IF s = <<>> THEN 0 ELSE Head(s) + SeqSum(Tail(s))

\* mean(axis=1) of one row; the inputs are rows whose mean is a sample
Mean(row) == SeqSum(row) \div Len(row)

to_mono(data, ndim) ==
    IF ndim > 1 THEN [i \in 1..Len(data) |-> Mean(data[i])] ELSE data

\* a conversion that rounds toward minus infinity
astype_int16_floor(n, mode) ==
    LET t == n \div SampleDen
    IN  IF t \in Int16 THEN t
        ELSE IF mode = "wrap" THEN Wrap16(t) ELSE Clip16(t)

\* astype(np.int16) of the float n / SampleDen
astype_int16(n, mode) ==
    LET t == Trunc(n, SampleDen)
    IN  IF t \in Int16 THEN t
        ELSE IF mode = "wrap" THEN Wrap16(t) ELSE Clip16(t)

to_playback(audio, mode) ==
    [i \in 1..Len(audio) |-> astype_int16(audio[i] * Int16Max, mode)]

\* a play_audio that lets the device's exception through
play_audio_raising(deviceOk) ==
    IF deviceOk
      THEN [playback |-> "playing", out |-> <<>>, raised |-> FALSE]
      ELSE [playback |-> "failed", out |-> <<>>, raised |-> TRUE]

\* play_audio: the try/except around sa.play_buffer
play_audio(deviceOk) ==
    IF deviceOk
      THEN [playback |-> "playing", out |-> <<>>, raised |-> FALSE]
      ELSE [playback |-> "failed", out |-> <<"Error playing audio">>,
            raised |-> FALSE]

\* x_pos = (i - num_bars / 2) * 0.5, in quarters
PosX(i) == 2 * i - NumBars

\* setColor(1.0, 0.5 + i / num_bars, 0.2 + i / num_bars, 1)
BarColor(i) ==
    <<10 * NumBars, 5 * NumBars + 10 * i, 2 * NumBars + 10 * i, 10 * NumBars>>

\* setScale(0.4, 0.1, 0.1)
InitialScale == <<(4 * ScaleDen) \div 10, ScaleDen \div 10, ScaleDen \div 10>>

prepare_bars ==
    [n \in 1..NumBars |->
        [id |-> n - 1, pos |-> <<PosX(n - 1), 0, 0>>, scale |-> InitialScale,
         color |-> BarColor(n - 1)]]

NoCall == [t |-> -1, start |-> -1, result |-> "none", chunk |-> -1]

ConstructionSteps ==
    <<"window", "load", "mono", "convert", "play_audio", "setup_scene",
      "prepare_bars", "add_task">>

----------------------------------------------------------------------------
(* main *)

\* a main that does not look for the file
path_exists_unchecked(exists) == TRUE

\* os.path.exists(audio_file)
path_exists(exists) == exists

Init ==
    /\ pc = "start"
    /\ fileExists \in BOOLEAN
    /\ printed = <<"Required libraries:", "pip install">>
    /\ window = FALSE
    /\ steps = <<>>
    /\ decode = "none"
    /\ audio_data = <<>>
    /\ sample_rate = 0
    /\ playback_data = <<>>
    /\ playback = "none"
    /\ scene = FALSE
    /\ bars = <<>>
    /\ task = "none"
    /\ time = 0
    /\ last = NoCall
    /\ reads = {}

\* main when the file is absent: two prints and return
MainFileMissing ==
    /\ pc = "start"
    /\ ~path_exists(fileExists)
    /\ pc' = "exited"
    /\ printed' = printed \o <<"Error: File not found", "Please update">>
    /\ UNCHANGED <<fileExists, window, steps, decode, audio_data, sample_rate,
                   playback_data, playback, scene, bars, task, time, last,
                   reads>>

\* main when the file is there: AudioVisualizer(audio_file), then app.run()
MainRun ==
    /\ pc = "start"
    /\ path_exists(fileExists)
    /\ \E dec \in DecodeOutcomes, deviceOk \in BOOLEAN, mode \in CastModes :
         \* a file that is not there cannot be decoded
         /\ dec.ok => fileExists
         /\ LET loaded == load_audio(dec)
                mono == to_mono(loaded.data, loaded.ndim)
                pcm == to_playback(mono, mode)
                played == play_audio(deviceOk)
            IN  /\ window' = TRUE
                /\ decode' = loaded.decode
                /\ audio_data' = mono
                /\ sample_rate' = loaded.rate
                /\ playback_data' = pcm
                /\ playback' = played.playback
                /\ printed' = printed \o loaded.out \o played.out
                /\ IF played.raised
                     THEN \* the exception leaves __init__ and main
                          /\ pc' = "crashed"
                          /\ steps' = SubSeq(ConstructionSteps, 1, 4)
                          /\ scene' = FALSE
                          /\ bars' = <<>>
                          /\ task' = "none"
                     ELSE /\ pc' = "running"
                          /\ steps' = ConstructionSteps
                          /\ scene' = TRUE
                          /\ bars' = prepare_bars
                          /\ task' = "scheduled"
    /\ UNCHANGED <<fileExists, time, last, reads>>

----------------------------------------------------------------------------
(* update_visualization, the per-frame task *)

\* a start index that ignores the elapsed time
StartSampleStuck(t, rate) == 0

\* start_sample = int(current_time * self.sample_rate)
StartSample(t, rate) == Trunc(t * rate, TimeDen)

\* a bounds check that lets the window end exactly at the end of the buffer
OutOfBoundsStrict(start, n) == start + NumBars > n

\* a bounds check that stops one sample early
OutOfBoundsEager(start, n) == start + NumBars >= n - 1

\* a bounds check that looks at the first index of the window only
OutOfBoundsStartOnly(start, n) == start >= n

\* if start_sample + self.num_bars >= len(self.audio_data): return Task.done
OutOfBounds(start, n) == start + NumBars >= n

\* a[lo:hi] for 0 <= lo <= hi: the slice is cut at the end of a
Slice(a, lo, hi) == SubSeq(a, lo + 1, Min(hi, Len(a)))

\* a height without the absolute value
HeightSigned(sample) == (sample * 10 * ScaleDen) \div SampleDen

\* height = abs(chunk[i]) * 10
Height(sample) == (Abs(sample) * 10 * ScaleDen) \div SampleDen

\* a setScale that scales the bar uniformly
NewScaleUniform(old, height) ==
    <<Max(ScaleDen \div 10, height), ScaleDen \div 10,
      Max(ScaleDen \div 10, height)>>

\* the arguments of bar.setScale(bar.getScale().x, 0.1, max(0.1, height))
NewScale(old, height) ==
    <<old[1], ScaleDen \div 10, Max(ScaleDen \div 10, height)>>

update_visualization(t) ==
    LET start_sample == StartSample(t, sample_rate)
        chunk == Slice(audio_data, start_sample, start_sample + NumBars)
    IN  IF OutOfBounds(start_sample, Len(audio_data))
          THEN [result |-> "done", bars |-> bars, start |-> start_sample,
                chunk |-> -1, read |-> {}]
          ELSE [result |-> "cont",
                bars |-> [n \in 1..Len(bars) |->
                            IF n - 1 < Len(chunk)
                              THEN [bars[n] EXCEPT
                                      !.scale = NewScale(@, Height(chunk[n]))]
                              ELSE bars[n]],
                start |-> start_sample,
                chunk |-> Len(chunk),
                read |-> {start_sample + i : i \in 0..(Len(chunk) - 1)}]

\* a frame of the render loop while the task is scheduled: the task manager
\* calls update_visualization with the task's elapsed time
FrameUpdate(dt) ==
    /\ pc = "running"
    /\ task = "scheduled"
    /\ time + dt <= MaxTime
    /\ time' = time + dt
    /\ LET r == update_visualization(time + dt)
       IN  /\ bars' = r.bars
           /\ task' = IF r.result = "done" THEN "done" ELSE "scheduled"
           /\ last' = [t |-> time + dt, start |-> r.start,
                       result |-> r.result, chunk |-> r.chunk]
           /\ reads' = reads \cup r.read
    /\ UNCHANGED <<pc, fileExists, printed, window, steps, decode, audio_data,
                   sample_rate, playback_data, playback, scene>>

\* a frame of the render loop after the task returned Task.done: the loop
\* goes on, the task is gone
FrameIdle(dt) ==
    /\ pc = "running"
    /\ task = "done"
    /\ time + dt <= MaxTime
    /\ time' = time + dt
    /\ UNCHANGED <<pc, fileExists, printed, window, steps, decode, audio_data,
                   sample_rate, playback_data, playback, scene, bars, task,
                   last, reads>>

Next ==
    \/ MainFileMissing
    \/ MainRun
    \/ \E dt \in 0..MaxDt : FrameUpdate(dt)
    \/ \E dt \in 0..MaxDt : FrameIdle(dt)

Spec == Init /\ [][Next]_vars

\* the render loop keeps running frames, and the clock moves on between them
LiveSpec ==
    /\ Spec
    /\ WF_vars(MainRun)
    /\ WF_vars(\E dt \in 1..MaxDt : FrameUpdate(dt))

----------------------------------------------------------------------------
(* Properties *)

MinScale == ScaleDen \div 10
Updated == last.result = "cont"
Stopped == task = "done"

\* the height the code is to give a bar showing sample k
BarHeight(k) ==
    LET h == ((IF k < 0 THEN -k ELSE k) * 10 * ScaleDen) \div SampleDen
    IN  IF h < MinScale THEN MinScale ELSE h

\* floor(t * sample_rate) for the elapsed time t / TimeDen
StartIndex(t) == (t * sample_rate) \div TimeDen

\* every bar shows the sample of the window starting at start
ShowsWindow(start) ==
    /\ Len(bars) = NumBars
    /\ \A i \in 0..(NumBars - 1) :
         /\ start + i + 1 \in DOMAIN audio_data
         /\ bars[i + 1].scale[3] = BarHeight(audio_data[start + i + 1])

\* C1: once start_sample + 64 >= len(audio_data), an invocation returns
\* Task.done and mutates no bar; as the elapsed time never decreases, an
\* invocation at any later time would do the same, and the bars stay as they
\* are.
C1_StoppedIsAbsorbing ==
    /\ [](last.t # -1 /\ StartIndex(last.t) + NumBars >= Len(audio_data)
            => last.result = "done" /\ Stopped)
    /\ [](Stopped =>
            /\ time >= last.t
            /\ StartIndex(time) + NumBars >= Len(audio_data)
            /\ update_visualization(time).result = "done"
            /\ update_visualization(time).bars = bars)
    /\ [][last'.result = "done" => bars' = bars]_vars
    /\ [][time' >= time]_vars

C1_Witness ==
    /\ Stopped
    /\ time > last.t
    /\ last.start > 0
    /\ \E n \in 1..Len(bars) : bars[n].scale[3] > MinScale

\* C2: after an update at elapsed time t that does not stop, bar i is
\* max(0.1, |audio_data[floor(t * sample_rate) + i]| * 10) high, and in every
\* state every bar is at least 0.1 high.
C2_HeightIsFunctionOfTime ==
    /\ \A n \in 1..Len(bars) : bars[n].scale[3] >= MinScale
    /\ Updated => ShowsWindow(StartIndex(last.t))

C2_Witness ==
    /\ Updated
    /\ \E n \in 1..NumBars :
         /\ audio_data[last.start + n] < 0
         /\ bars[n].scale[3] > MinScale
    /\ \E n \in 1..NumBars :
         /\ audio_data[last.start + n] # 0
         /\ bars[n].scale[3] = MinScale

\* C3, as stated: update_visualization stops exactly when
\* start_sample + 64 > len(audio_data), and goes on when they are equal.
C3_StopsOnlyBeyondEnd ==
    last.t # -1 =>
        (last.result = "done" <=> last.start + NumBars > Len(audio_data))

\* C3, amended: update_visualization stops exactly when
\* start_sample + 64 >= len(audio_data); in every other case it sets each of
\* the 64 bars from sample[start_sample + i] and the task stays scheduled.
C3_StopsAtEnd ==
    last.t # -1 =>
        /\ last.result = "done" <=> last.start + NumBars >= Len(audio_data)
        /\ last.result = "done" => Stopped
        /\ last.result # "done" =>
             /\ last.result = "cont"
             /\ task = "scheduled"
             /\ ShowsWindow(last.start)

C3_Witness ==
    /\ last.result = "done"
    /\ last.start > 0
    /\ last.start + NumBars = Len(audio_data)

\* C4: when decoding fails, construction goes on: audio_data is 1024 zeros,
\* sample_rate is 44100, and every step of a successful construction is
\* taken (conversion, playback submit, scene, 64 bars, the update task).
C4_DecodeFailureFallsBack ==
    /\ decode = "failed" =>
         /\ pc = "running"
         /\ Len(audio_data) = FallbackLen
         /\ \A i \in 1..Len(audio_data) : audio_data[i] = 0
         /\ sample_rate = FallbackRate
         /\ Len(playback_data) = FallbackLen
         /\ playback # "none"
         /\ window /\ scene
         /\ Len(bars) = NumBars
         /\ task # "none"
    /\ decode # "none" /\ pc = "running" =>
         steps = <<"window", "load", "mono", "convert", "play_audio",
                   "setup_scene", "prepare_bars", "add_task">>

C4_Witness ==
    /\ decode = "failed"
    /\ Updated
    /\ last.start > 0

\* C5: when the file is absent, main prints the message and returns; no
\* window, no decode, no playback, no bars, no task.
C5_MissingFileDoesNothing ==
    ~fileExists =>
        /\ pc \in {"start", "exited"}
        /\ ~window /\ ~scene
        /\ decode = "none"
        /\ playback = "none"
        /\ playback_data = <<>>
        /\ bars = <<>>
        /\ task = "none"
        /\ steps = <<>>
        /\ last.t = -1
        /\ pc = "exited" =>
             /\ Len(printed) = 4
             /\ printed[3] = "Error: File not found"

C5_Witness == ~fileExists /\ pc = "exited"

\* C6: when the playback submit fails, the failure is logged and nothing
\* else changes: the scene, the 64 bars and the task are set up, and the
\* updates stop and set the bars as they do with sound.
C6_PlaybackFailureIsLogged ==
    playback = "failed" =>
        /\ pc = "running"
        /\ printed[Len(printed)] = "Error playing audio"
        /\ scene
        /\ Len(bars) = NumBars
        /\ task \in {"scheduled", "done"}
        /\ steps[Len(steps)] = "add_task"
        /\ last.t # -1 =>
             IF StartIndex(last.t) + NumBars >= Len(audio_data)
               THEN last.result = "done" /\ Stopped
               ELSE Updated /\ ShowsWindow(StartIndex(last.t))

C6_Witness ==
    /\ playback = "failed"
    /\ Updated
    /\ \E n \in 1..NumBars : bars[n].scale[3] > MinScale

\* C7, as stated: playback_data[i] is round(audio_data[i] * 32767) clipped to
\* the int16 range, and the two buffers are as long as each other.
C7_RoundedAndClipped ==
    /\ Len(playback_data) = Len(audio_data)
    /\ \A i \in 1..Len(audio_data) :
         playback_data[i] =
           Clip16(RoundHalfEven(audio_data[i] * Int16Max, SampleDen))

\* C7, amended: for every sample in [-1, 1], playback_data[i] is
\* audio_data[i] * 32767 truncated toward zero (not rounded); a sample outside
\* [-1, 1] is not clipped; the playback buffer is as long as the audio buffer
\* and is never modified once created.
C7_Truncated ==
    /\ [](/\ Len(playback_data) = Len(audio_data)
          /\ \A i \in 1..Len(audio_data) :
               /\ playback_data[i] \in Int16
               /\ audio_data[i] \in (-SampleDen)..SampleDen =>
                    LET n == audio_data[i] * Int16Max
                    IN  playback_data[i] =
                          IF n >= 0 THEN n \div SampleDen
                          ELSE -((-n) \div SampleDen))
    /\ [][pc = "running" => playback_data' = playback_data]_vars

C7_Witness ==
    /\ time > 0
    /\ \E i \in 1..Len(audio_data) :
         /\ audio_data[i] < 0
         /\ audio_data[i] > -SampleDen
         /\ playback_data[i] < 0
    /\ \E i \in 1..Len(audio_data) :
         /\ audio_data[i] > SampleDen
         /\ playback_data[i] < 0

\* C8: once the bars are created, there are always the same 64 bars in the
\* same order; an update changes nothing of a bar but the height component
\* of its scale, and changes neither audio_data nor sample_rate.
C8_OnlyHeightChanges ==
    /\ [](pc = "running" =>
            /\ Len(bars) = NumBars
            /\ \A n \in 1..NumBars : bars[n].id = n - 1)
    /\ [][pc = "running" =>
            /\ Len(bars') = Len(bars)
            /\ \A n \in 1..Len(bars) :
                 /\ bars'[n].id = bars[n].id
                 /\ bars'[n].pos = bars[n].pos
                 /\ bars'[n].color = bars[n].color
                 /\ bars'[n].scale[1] = bars[n].scale[1]
                 /\ bars'[n].scale[2] = bars[n].scale[2]
            /\ audio_data' = audio_data
            /\ sample_rate' = sample_rate]_vars

C8_Witness ==
    /\ Updated
    /\ last.start > 0
    /\ \E n \in 1..NumBars : bars[n].scale[3] # bars[n].scale[2]

\* C9: when the render loop keeps running frames and the clock moves on, the
\* scheduled task eventually returns Task.done and is never invoked again;
\* with at most 64 samples the first invocation stops and every bar stays
\* 0.1 high.
C9_EventuallyStops ==
    /\ (task = "scheduled") ~> Stopped
    /\ [][Stopped => last' = last /\ task' = task /\ bars' = bars]_vars
    /\ [](pc = "running" /\ Len(audio_data) <= NumBars =>
            /\ last.t # -1 => last.result = "done"
            /\ \A n \in 1..Len(bars) : bars[n].scale = InitialScale)

C9_Witness ==
    /\ Stopped
    /\ time > last.t
    /\ Len(audio_data) \in 1..NumBars

\* C10: an update that does not stop reads 64 samples, all inside the
\* buffer, and sets all 64 bars; no update ever reads the last sample.
C10_ReadsInBounds ==
    /\ Updated =>
         /\ last.start >= 0
         /\ last.start + NumBars - 1 <= Len(audio_data) - 1
         /\ last.chunk = NumBars
         /\ Len(bars) = NumBars
    /\ \A i \in reads : i >= 0 /\ i < Len(audio_data) - 1

C10_Witness ==
    /\ Updated
    /\ last.start + NumBars = Len(audio_data) - 1
    /\ Cardinality(reads) > NumBars

====
